---- MODULE Spec2Model ----
(***************************************************************************)
(* qpsolvers: the CVXOPT adapter (qpsolvers/solvers/cvxopt_.py) and the    *)
(* constraint validator (qpsolvers/check_problem_constraints.py).          *)
(*                                                                         *)
(* The state is the process-wide dictionary cvxopt.solvers.options and,    *)
(* for every thread that calls into the library, the position of its call  *)
(* and the locals that call still reads.  Matrices are modelled by their   *)
(* presence (None or an array); numbers passed as tuning options by small  *)
(* naturals, of which 0 is the falsy one; status strings by the sequence   *)
(* of their characters, so that Python's substring test is computed.       *)
(***************************************************************************)
EXTENDS Naturals, Sequences, FiniteSets

VARIABLES options, pc, verbose, tuning, call, sol, outcome

vars == <<options, pc, verbose, tuning, call, sol, outcome>>

-----------------------------------------------------------------------------
(* Bounds of the model *)

\* largest number passed as a tuning option (0 is included and is falsy)
MaxOptVal == 1
\* most tuning options one call passes explicitly (the others are None)
MaxExplicit == 1
\* largest number of optimization variables (length of q)
MaxN == 2

-----------------------------------------------------------------------------
(* Values *)

Threads == {"t1", "t2"}
MainThread == "t1"

\* Python's None for an optional argument; Some(v) is an argument that is set
None == <<>>
Some(v) == <<v>>
OptionalArg == {None} \cup {Some(v) : v \in 0..MaxOptVal}

\* "if maxiters:" -- None and 0 are falsy
Truthy(a) == a # None /\ a[1] # 0

\* an optional matrix or vector: absent or present
NoMatrix == "None"
Matrix == "ndarray"
Presence == {NoMatrix, Matrix}

\* a bound vector: absent, all of its entries infinite, or with finite entries
Unbounded == "inf"
BoundPresence == {NoMatrix, Unbounded, Matrix}

TuningKeys == {"maxiters", "abstol", "reltol", "feastol", "refinement"}

\* dict[k] = v on a dictionary held as a function on its keys
DictSet(d, k, v) == [x \in (DOMAIN d) \cup {k} |-> IF x = k THEN v ELSE d[x]]

EmptyDict == <<>>

\* the status strings cvxopt.solvers.qp reports in sol["status"]
Optimal == <<"o","p","t","i","m","a","l">>
Unknown == <<"u","n","k","n","o","w","n">>
PrimalInfeasible ==
    <<"p","r","i","m","a","l"," ","i","n","f","e","a","s","i","b","l","e">>
DualInfeasible ==
    <<"d","u","a","l"," ","i","n","f","e","a","s","i","b","l","e">>
Statuses == {Optimal, Unknown, PrimalInfeasible, DualInfeasible}
InfeasibleStatuses == {PrimalInfeasible, DualInfeasible}

\* exceptions the backend raises: in cvxopt.matrix(...) and in qp(...)
NoExc == [type |-> "", msg |-> ""]
ConversionErrors == {[type |-> "TypeError", msg |-> "invalid type in buffer"]}
QpErrors == {[type |-> "ValueError", msg |-> "Rank(A) < p or Rank([P; A; G]) < n"]}

Zeros(n) == [i \in 1..n |-> 0]

-----------------------------------------------------------------------------
(* check_problem_constraints.py *)

Returned == [kind |-> "None", x |-> <<>>, exc |-> NoExc]
Raised(e) == [kind |-> "raise", x |-> <<>>, exc |-> e]
Vector(x) == [kind |-> "ndarray", x |-> x, exc |-> NoExc]

ValueError(m) == [type |-> "ValueError", msg |-> m]

\* the second test mistyped as the first: G without h goes unnoticed
check_problem_constraints_missed(G, h, A, b) ==
    IF G = NoMatrix /\ h # NoMatrix
    THEN Raised(ValueError("incomplete inequality constraint (missing h)"))
    ELSE IF A = NoMatrix /\ b # NoMatrix
    THEN Raised(ValueError("incomplete equality constraint (missing b)"))
    ELSE IF A # NoMatrix /\ b = NoMatrix
    THEN Raised(ValueError("incomplete equality constraint (missing A)"))
    ELSE Returned

check_problem_constraints(G, h, A, b) ==
    IF G = NoMatrix /\ h # NoMatrix
    THEN Raised(ValueError("incomplete inequality constraint (missing h)"))
    ELSE IF G # NoMatrix /\ h = NoMatrix
    THEN Raised(ValueError("incomplete inequality constraint (missing G)"))
    ELSE IF A = NoMatrix /\ b # NoMatrix
    THEN Raised(ValueError("incomplete equality constraint (missing b)"))
    ELSE IF A # NoMatrix /\ b = NoMatrix
    THEN Raised(ValueError("incomplete equality constraint (missing A)"))
    ELSE Returned

-----------------------------------------------------------------------------
(* cvxopt_.py *)

\* line 32, executed at import
ImportOptions == DictSet(EmptyDict, "show_progress", FALSE)

\* verbose treated like the tuning options: "if verbose: options[...] = verbose"
SetShowProgressIfTrue(o, v) == IF v THEN DictSet(o, "show_progress", v) ELSE o

\* line 175
SetShowProgress(o, v) == DictSet(o, "show_progress", v)

\* "+=" in place of "=": the value is added to the one already held
SetIfTruthyAdding(o, k, a) ==
    IF Truthy(a)
    THEN DictSet(o, k, (IF k \in DOMAIN o THEN o[k] ELSE 0) + a[1])
    ELSE o

\* lines 176-185: "if <arg>: options[<key>] = <arg>"
SetIfTruthy(o, k, a) == IF Truthy(a) THEN DictSet(o, k, a[1]) ELSE o

\* a tuning argument the call has not read yet counts as not passed
ArgOf(args, k) == IF k \in DOMAIN args THEN args[k] ELSE None

\* lines 174-185 as one function of the options and the call's arguments
MapOptions(o, v, args) ==
    LET o0 == SetShowProgress(o, v)
        o1 == SetIfTruthy(o0, "maxiters", ArgOf(args, "maxiters"))
        o2 == SetIfTruthy(o1, "abstol", ArgOf(args, "abstol"))
        o3 == SetIfTruthy(o2, "reltol", ArgOf(args, "reltol"))
        o4 == SetIfTruthy(o3, "feastol", ArgOf(args, "feastol"))
    IN  SetIfTruthy(o4, "refinement", ArgOf(args, "refinement"))

\* conversions.linear_from_box_inequalities: a row under G and an entry under
\* h for every finite bound; without a finite bound G and h are as given
linear_from_box_inequalities(G, h, lb, ub) ==
    IF lb = Matrix \/ ub = Matrix THEN <<Matrix, Matrix>> ELSE <<G, h>>

\* lines 171-172
BoxedGh(G, h, lb, ub) ==
    IF lb # NoMatrix \/ ub # NoMatrix
    THEN linear_from_box_inequalities(G, h, lb, ub)
    ELSE <<G, h>>

\* lines 188-194: a pair reaches qp only when both of its members are present
BuildKwargs(G, h, A, b) ==
    [G |-> IF G # NoMatrix /\ h # NoMatrix THEN Matrix ELSE NoMatrix,
     h |-> IF G # NoMatrix /\ h # NoMatrix THEN Matrix ELSE NoMatrix,
     A |-> IF A # NoMatrix /\ b # NoMatrix THEN Matrix ELSE NoMatrix,
     b |-> IF A # NoMatrix /\ b # NoMatrix THEN Matrix ELSE NoMatrix]

\* Python's "sub in s" on strings
Contains(sub, s) ==
    \E i \in 0..(Len(s) - Len(sub)) : SubSeq(s, i + 1, i + Len(sub)) = sub

\* array(sol["x"]).reshape((n,))
Reshape(x, n) == [i \in 1..n |-> x[i]]

\* the test turned into a list of failures: only "infeasible" statuses give None
ReturnValueUnlessInfeasible(s, n) ==
    IF Contains(<<"i","n","f","e","a","s","i","b","l","e">>, s.status)
    THEN Returned
    ELSE Vector(Reshape(s.x, n))

\* lines 199-201
ReturnValue(s, n) ==
    IF ~Contains(Optimal, s.status) THEN Returned ELSE Vector(Reshape(s.x, n))

\* "except Exception: return None"
PropagateSwallowed(e) == Returned

\* "except Exception: raise BackendError()", the message lost
PropagateWrapped(e) == Raised([type |-> "BackendError", msg |-> ""])

\* lines 187-198 hold no try/except: a backend exception leaves the function
Propagate(e) == Raised(e)

-----------------------------------------------------------------------------
(* State *)

NoCall == [given |-> <<>>, kwargs |-> <<>>]
NoSol == [status |-> <<>>, x |-> <<>>, n |-> 0]
NoBackend == [kind |-> "none", status |-> <<>>, exc |-> NoExc]
NoOutcome ==
    [op |-> "", given |-> <<>>, backend |-> NoBackend, n |-> 0, result |-> Returned]

Init ==
    /\ options = ImportOptions
    /\ pc = [t \in Threads |-> "idle"]
    /\ verbose = [t \in Threads |-> FALSE]
    /\ tuning = [t \in Threads |-> EmptyDict]
    /\ call = [t \in Threads |-> NoCall]
    /\ sol = [t \in Threads |-> NoSol]
    /\ outcome = [t \in Threads |-> NoOutcome]

\* the thread is outside any call
AtRest(t) == pc[t] \in {"idle", "done"}

Explicit(t) == {k \in DOMAIN tuning[t] : tuning[t][k] # None}

\* what the caller may pass for the next tuning option
ArgChoices(t) ==
    IF Cardinality(Explicit(t)) < MaxExplicit THEN OptionalArg ELSE {None}

-----------------------------------------------------------------------------
(* Steps of cvxopt_solve_qp, one per access to the shared options *)

\* entry and line 175 (lines 171-172 touch locals only: see Invoke)
Begin(t) ==
    /\ AtRest(t)
    /\ \E v \in BOOLEAN :
        /\ options' = SetShowProgress(options, v)
        /\ verbose' = [verbose EXCEPT ![t] = v]
    /\ tuning' = [tuning EXCEPT ![t] = EmptyDict]
    /\ outcome' = [outcome EXCEPT ![t] = NoOutcome]
    /\ pc' = [pc EXCEPT ![t] = "maxiters"]
    /\ UNCHANGED <<call, sol>>

Tune(t, k, next) ==
    /\ pc[t] = k
    /\ \E a \in ArgChoices(t) :
        /\ options' = SetIfTruthy(options, k, a)
        /\ tuning' = [tuning EXCEPT ![t] = DictSet(tuning[t], k, a)]
    /\ pc' = [pc EXCEPT ![t] = next]
    /\ UNCHANGED <<verbose, call, sol, outcome>>

\* lines 176-177
SetMaxiters(t) == Tune(t, "maxiters", "abstol")
\* lines 178-179
SetAbstol(t) == Tune(t, "abstol", "reltol")
\* lines 180-181
SetReltol(t) == Tune(t, "reltol", "feastol")
\* lines 182-183
SetFeastol(t) == Tune(t, "feastol", "refinement")
\* lines 184-185
SetRefinement(t) == Tune(t, "refinement", "build")

SolveOutcome(backend, n, result) ==
    [op |-> "cvxopt_solve_qp", given |-> <<>>, backend |-> backend,
     n |-> n, result |-> result]

\* the problems a caller can pass, as line 198 hands them to qp: what was
\* given for G, h, A, b and the keyword arguments built from it (lines
\* 171-172 and 188-194)
ProblemCalls ==
    {[given |-> <<G, h, A, b>>,
      kwargs |-> BuildKwargs(BoxedGh(G, h, lb, ub)[1], BoxedGh(G, h, lb, ub)[2], A, b)] :
        G \in Presence, h \in Presence, A \in Presence, b \in Presence,
        lb \in BoundPresence, ub \in BoundPresence}

\* lines 171-172 and 187-197 compute on locals; line 198 enters qp, which
\* reads the shared options as they are now
Invoke(t) ==
    /\ pc[t] = "build"
    /\ \/ \E c \in ProblemCalls :
            /\ call' = [call EXCEPT ![t] = c]
            /\ pc' = [pc EXCEPT ![t] = "qp"]
            /\ UNCHANGED outcome
       \/ \E e \in ConversionErrors :
            /\ outcome' = [outcome EXCEPT ![t] =
                 SolveOutcome([kind |-> "raised", status |-> <<>>, exc |-> e],
                              0, Propagate(e))]
            /\ pc' = [pc EXCEPT ![t] = "done"]
            /\ UNCHANGED call
    /\ verbose' = [verbose EXCEPT ![t] = FALSE]
    /\ tuning' = [tuning EXCEPT ![t] = EmptyDict]
    /\ UNCHANGED <<options, sol>>

\* qp returns its solution dictionary
QpReturns(t) ==
    /\ pc[t] = "qp"
    /\ \E s \in Statuses, n \in 1..MaxN :
        sol' = [sol EXCEPT ![t] =
                 [status |-> s,
                  x |-> IF s \in InfeasibleStatuses THEN <<>> ELSE Zeros(n),
                  n |-> n]]
    /\ call' = [call EXCEPT ![t] = NoCall]
    /\ pc' = [pc EXCEPT ![t] = "ret"]
    /\ UNCHANGED <<options, verbose, tuning, outcome>>

\* qp raises
QpRaises(t) ==
    /\ pc[t] = "qp"
    /\ \E e \in QpErrors :
        outcome' = [outcome EXCEPT ![t] =
            SolveOutcome([kind |-> "raised", status |-> <<>>, exc |-> e],
                         0, Propagate(e))]
    /\ call' = [call EXCEPT ![t] = NoCall]
    /\ pc' = [pc EXCEPT ![t] = "done"]
    /\ UNCHANGED <<options, verbose, tuning, sol>>

\* lines 199-201
Return(t) ==
    /\ pc[t] = "ret"
    /\ outcome' = [outcome EXCEPT ![t] =
        SolveOutcome([kind |-> "status", status |-> sol[t].status, exc |-> NoExc],
                     sol[t].n, ReturnValue(sol[t], sol[t].n))]
    /\ sol' = [sol EXCEPT ![t] = NoSol]
    /\ pc' = [pc EXCEPT ![t] = "done"]
    /\ UNCHANGED <<options, verbose, tuning, call>>

\* a call of check_problem_constraints(G, h, A, b)
CheckProblemConstraints(t) ==
    /\ AtRest(t)
    /\ \E G \in Presence, h \in Presence, A \in Presence, b \in Presence :
        outcome' = [outcome EXCEPT ![t] =
            [op |-> "check_problem_constraints", given |-> <<G, h, A, b>>,
             backend |-> NoBackend, n |-> 0,
             result |-> check_problem_constraints(G, h, A, b)]]
    /\ pc' = [pc EXCEPT ![t] = "done"]
    /\ UNCHANGED <<options, verbose, tuning, call, sol>>

-----------------------------------------------------------------------------
(* Specifications *)

\* one caller: calls follow one another
Next ==
    \/ Begin(MainThread)
    \/ SetMaxiters(MainThread)
    \/ SetAbstol(MainThread)
    \/ SetReltol(MainThread)
    \/ SetFeastol(MainThread)
    \/ SetRefinement(MainThread)
    \/ Invoke(MainThread)
    \/ QpReturns(MainThread)
    \/ QpRaises(MainThread)
    \/ Return(MainThread)
    \/ CheckProblemConstraints(MainThread)

Spec == Init /\ [][Next]_vars

\* callers on separate threads: the steps of their calls interleave
ConcNext ==
    \E t \in Threads :
        \/ Begin(t)
        \/ SetMaxiters(t)
        \/ SetAbstol(t)
        \/ SetReltol(t)
        \/ SetFeastol(t)
        \/ SetRefinement(t)
        \/ Invoke(t)
        \/ QpReturns(t)
        \/ QpRaises(t)
        \/ Return(t)

ConcSpec == Init /\ [][ConcNext]_vars

-----------------------------------------------------------------------------
(* Properties *)

\* no call is in progress
Quiescent == \A t \in Threads : AtRest(t)

\* the thread has mapped its options and is at line 198: qp, entered from
\* this state, reads the options as they are here
AtQp(t) == pc[t] = "build"

Solved(t) == outcome[t].op = "cvxopt_solve_qp"
BackendReturned(t) == Solved(t) /\ outcome[t].backend.kind = "status"
BackendRaised(t) == Solved(t) /\ outcome[t].backend.kind = "raised"

Checked(t) == outcome[t].op = "check_problem_constraints"

\* exactly one member of the pair is present
Incomplete(x, y) == (x = NoMatrix) # (y = NoMatrix)

\* the arguments a call can pass for its tuning options
CallArgs ==
    {a \in [TuningKeys -> OptionalArg] :
        Cardinality({k \in TuningKeys : a[k] # None}) <= MaxExplicit}

\* C1: check_problem_constraints raises if and only if exactly one member of
\* (G, h) or exactly one member of (A, b) is present; otherwise it returns.
C1_RaisesIffIncompletePair ==
    \A t \in Threads :
        Checked(t) =>
            LET g == outcome[t].given
                bad == Incomplete(g[1], g[2]) \/ Incomplete(g[3], g[4])
            IN  /\ bad <=> outcome[t].result.kind = "raise"
                /\ ~bad <=> outcome[t].result = Returned

C1_Witness ==
    \E t \in Threads :
        /\ Checked(t)
        /\ outcome[t].given = <<Matrix, NoMatrix, Matrix, Matrix>>
        /\ outcome[t].result.kind = "raise"

\* C2: the shared options after a call equal the options before it.  Over the
\* calls that follow one another from import, this is: whenever no call is in
\* progress the options are those of import.
C2_OptionsRestored == Quiescent => options = ImportOptions

\* C3: with calls on separate threads, a call is at its qp invocation only
\* with the option values it set itself.
C3_QpRunsWithOwnOptions ==
    \A t \in Threads :
        AtQp(t) =>
            /\ options["show_progress"] = verbose[t]
            /\ \A k \in DOMAIN tuning[t] :
                Truthy(tuning[t][k]) =>
                    k \in DOMAIN options /\ options[k] = tuning[t][k][1]

\* C4: with calls one after another, show_progress at the qp invocation is
\* the verbose argument of that same call, whatever earlier calls passed.
C4_ShowProgressIsOwnVerbose ==
    \A t \in Threads : AtQp(t) => options["show_progress"] = verbose[t]

\* a call without verbose and without tuning options, after calls that left
\* tuning options behind
C4_Witness ==
    \E t \in Threads :
        /\ AtQp(t)
        /\ ~verbose[t]
        /\ Explicit(t) = {}
        /\ DOMAIN options # {"show_progress"}
        /\ options["show_progress"] = FALSE

\* C5: a vector, of the length of q, is returned only for the status of
\* optimal termination; every other status returns None.
C5_VectorOnlyWhenOptimal ==
    \A t \in Threads :
        BackendReturned(t) =>
            IF outcome[t].backend.status = Optimal
            THEN /\ outcome[t].result.kind = "ndarray"
                 /\ Len(outcome[t].result.x) = outcome[t].n
            ELSE outcome[t].result = Returned

C5_Witness ==
    \E t \in Threads :
        /\ BackendReturned(t)
        /\ outcome[t].backend.status = Optimal
        /\ outcome[t].result.kind = "ndarray"
        /\ Len(outcome[t].result.x) > 1

\* C6: the backend is never entered with a problem of which exactly one
\* member of a constraint pair was given.
C6_NoSolveOfIncompletePair ==
    \A t \in Threads :
        pc[t] = "qp" =>
            check_problem_constraints(call[t].given[1], call[t].given[2],
                                      call[t].given[3], call[t].given[4]) = Returned

\* what the caller receives for an infeasible problem
InfeasibleResults ==
    {ReturnValue([status |-> s, x |-> <<>>, n |-> n], n) :
        s \in InfeasibleStatuses, n \in 1..MaxN}

\* C7: what the caller receives when the backend fails hard (raises) or ends
\* with the status unknown is never what it receives for infeasibility.
C7_FailureDistinctFromInfeasible ==
    \A t \in Threads :
        (BackendRaised(t) \/ (BackendReturned(t) /\ outcome[t].backend.status = Unknown))
            => outcome[t].result \notin InfeasibleResults

\* C7 as amended: a backend exception reaches the caller as an exception,
\* which infeasibility never does; the status unknown returns None, the
\* value returned for infeasibility.
C7_OnlyExceptionsDistinct ==
    \A t \in Threads :
        /\ BackendRaised(t) => outcome[t].result \notin InfeasibleResults
        /\ (BackendReturned(t) /\ outcome[t].backend.status = Unknown)
              => outcome[t].result \in InfeasibleResults

C7_Witness ==
    \E t \in Threads :
        /\ BackendRaised(t)
        /\ outcome[t].backend.exc \in QpErrors
        /\ outcome[t].result.kind = "raise"

C9_MapOptionsIdempotent ==
    \A t \in Threads :
        /\ AtQp(t) => MapOptions(options, verbose[t], tuning[t]) = options
        /\ pc[t] = "maxiters" =>
              \A v \in BOOLEAN, a \in CallArgs :
                  MapOptions(MapOptions(options, v, a), v, a) = MapOptions(options, v, a)

\* a call that set show_progress and a tuning option over values left by
\* an earlier call
C9_Witness ==
    \E t \in Threads :
        /\ AtQp(t)
        /\ verbose[t]
        /\ \E k \in Explicit(t) : Truthy(tuning[t][k])
        /\ \E k \in DOMAIN options : k \in TuningKeys /\ k \notin Explicit(t)

\* C10: every value passed for a tuning option, 0 included, is the value the
\* options hold for it at the qp invocation of that call.
C10_PassedValueHeldAtQp ==
    \A t \in Threads :
        AtQp(t) =>
            \A k \in DOMAIN tuning[t] :
                tuning[t][k] # None =>
                    k \in DOMAIN options /\ options[k] = tuning[t][k][1]

====
